---- MODULE Spec2Model ----
(***************************************************************************)
(* A model of run.py, the build-and-launch orchestrator of CorgOS.         *)
(*                                                                         *)
(* Architecture and platform names that the program inspects character by  *)
(* character (str.lower, ==, `in`) are sequences of one-character strings. *)
(* Registry keys, file names and command-line tokens that the program only *)
(* passes around are TLA+ strings.  A path is the sequence of its          *)
(* components, relative to PWD.                                            *)
(***************************************************************************)
EXTENDS Naturals, Sequences, FiniteSets, TLC

VARIABLES
    pc,          \* position of the running invocation; "idle" between invocations
    entry,       \* how the current invocation was entered: "main" or "run_qemu"
    args,        \* the arguments of the current invocation
    archIdx,     \* build_all_arches: index of the loop over ARCH_CONFIG
    fs,          \* the files on disk: path -> content
    dirs,        \* the staging directories that exist
    host,        \* platform.machine() and platform.system() of the host
    log,         \* what the invocation has logged so far
    spawned,     \* the child processes the invocation has run, in order
    accelOption, \* run_qemu's local accel_option
    qemuCommand, \* run_qemu's local qemu_command
    exc,         \* the exception being propagated, or NoExc
    exitCode,    \* exit status of the last finished process, "none" before
    runs,        \* number of invocations started
    preStaging,  \* the staged files setup_directories found when it began
    fnPc,        \* function harness: position
    fnIn,        \* function harness: the inputs
    fnOut        \* function harness: the outputs

vars == <<pc, entry, args, archIdx, fs, dirs, host, log, spawned, accelOption,
          qemuCommand, exc, exitCode, runs, preStaging, fnPc, fnIn, fnOut>>

progVars == <<pc, entry, args, archIdx, fs, dirs, host, log, spawned, accelOption,
              qemuCommand, exc, exitCode, runs, preStaging>>

fnVars == <<fnPc, fnIn, fnOut>>

\* Number of invocations of the program a behaviour holds.
MaxRuns == 2

NUM_PROC == 8

MEMORY == "8192M"

(***************************************************************************)
(* Strings                                                                 *)
(***************************************************************************)
UpperChars == <<"A","B","C","D","E","F","G","H","I","J","K","L","M",
                "N","O","P","Q","R","S","T","U","V","W","X","Y","Z">>

LowerChars == <<"a","b","c","d","e","f","g","h","i","j","k","l","m",
                "n","o","p","q","r","s","t","u","v","w","x","y","z">>

LowerChar(c) ==
    IF \E i \in 1..26 : UpperChars[i] = c
    THEN LowerChars[CHOOSE i \in 1..26 : UpperChars[i] = c]
    ELSE c

UpperChar(c) ==
    IF \E i \in 1..26 : LowerChars[i] = c
    THEN UpperChars[CHOOSE i \in 1..26 : LowerChars[i] = c]
    ELSE c

\* str.lower()
Lower(s) == [i \in 1..Len(s) |-> LowerChar(s[i])]

\* `sub in s` on strings
Contains(sub, s) ==
    \E i \in 0..Len(s) : i + Len(sub) <= Len(s) /\ SubSeq(s, i + 1, i + Len(sub)) = sub

S_x86_64  == <<"x","8","6","_","6","4">>
S_aarch64 == <<"a","a","r","c","h","6","4">>
S_arm64   == <<"a","r","m","6","4">>
S_amd64   == <<"a","m","d","6","4">>
S_x64     == <<"x","6","4">>
S_i386    == <<"i","3","8","6">>
S_ppc     == <<"p","p","c">>
S_linux   == <<"l","i","n","u","x">>
S_darwin  == <<"d","a","r","w","i","n">>
S_Linux   == <<"L","i","n","u","x">>
S_Darwin  == <<"D","a","r","w","i","n">>
S_Windows == <<"W","i","n","d","o","w","s">>
S_FreeBSD == <<"F","r","e","e","B","S","D">>

\* The registry key as the characters the program compares.
ArchChars(arch) == IF arch = "x86_64" THEN S_x86_64 ELSE S_aarch64

\* Every spelling of s in upper and lower case.
RECURSIVE CaseVariants(_)
CaseVariants(s) ==
    IF s = <<>> THEN {<<>>}
    ELSE {<<c>> \o r : c \in {s[1], UpperChar(s[1])}, r \in CaseVariants(Tail(s))}

(***************************************************************************)
(* get_arch_name_normalized                                                *)
(***************************************************************************)
get_arch_name_normalized(arch_name) ==
    LET arch_normalized == Lower(arch_name) IN
    IF arch_name = S_arm64 THEN S_aarch64
    ELSE IF arch_name = S_amd64 THEN S_x86_64
    ELSE IF arch_name = S_x64 THEN S_x86_64
    ELSE arch_normalized

(***************************************************************************)
(* get_accelerator: the outcome is the exception raised or the flag        *)
(* returned, as the tokens the command line gets from it.                  *)
(***************************************************************************)
AccelMismatchMsg == "Can't enable hardware acceleration for a non-native guest"

Raised(kind, detail) == [kind |-> kind, detail |-> detail]

Returned(flag) == [kind |-> "return", detail |-> flag]

get_accelerator_os_first(target_arch, accel, machine, system_name) ==
    LET system_arch == Lower(machine)
        system == Lower(system_name)
    IN  IF ~accel THEN Returned(<<>>)
        ELSE IF Contains(S_linux, system) THEN Returned(<<"-enable-kvm">>)
        ELSE IF Contains(S_darwin, system) THEN Returned(<<"-accel", "hvf">>)
        ELSE IF get_arch_name_normalized(system_arch) # get_arch_name_normalized(target_arch)
             THEN Raised("Exception", <<AccelMismatchMsg>>)
        ELSE Returned(<<>>)

get_accelerator(target_arch, accel, machine, system_name) ==
    LET system_arch == Lower(machine)
        system == Lower(system_name)
    IN  IF ~accel THEN Returned(<<>>)
        ELSE IF get_arch_name_normalized(system_arch) # get_arch_name_normalized(target_arch)
             THEN Raised("Exception", <<AccelMismatchMsg>>)
        ELSE IF Contains(S_linux, system) THEN Returned(<<"-enable-kvm">>)
        ELSE IF Contains(S_darwin, system) THEN Returned(<<"-accel", "hvf">>)
        ELSE Returned(<<>>)

(***************************************************************************)
(* ARCH_CONFIG, EFI_DIR, OVMF_DIR                                          *)
(***************************************************************************)
ARCH_CONFIG ==
    [a \in {"x86_64", "aarch64"} |->
        IF a = "x86_64"
        THEN [cpu         |-> "SandyBridge,-tsc-deadline",
              machine     |-> "q35",
              semihosting |-> <<"-device", "isa-debug-exit">>,
              log_device  |-> "com1",
              ovmf_code   |-> <<"edk2-uefi", "ovmf-x64-4m", "OVMF_CODE.fd">>,
              ovmf_vars   |-> <<"edk2-uefi", "ovmf-x64-4m", "OVMF_VARS.fd">>,
              boot_efi    |-> "bootx64.efi",
              boot_ini    |-> "corgos-boot-x86_64.ini"]
        ELSE [cpu         |-> "cortex-a72",
              machine     |-> "virt",
              semihosting |-> <<"-semihosting">>,
              log_device  |-> "\"pl011@9000000\"",
              ovmf_code   |-> <<"edk2-uefi", "aarch64", "QEMU_EFI-silent-pflash.raw">>,
              ovmf_vars   |-> <<"edk2-uefi", "aarch64", "vars-template-pflash.raw">>,
              boot_efi    |-> "bootaa64.efi",
              boot_ini    |-> "corgos-boot-aarch64.ini"]]

\* The keys of ARCH_CONFIG in the order a loop over the dict visits them.
ArchOrder == <<"x86_64", "aarch64">>

Archs == {ArchOrder[i] : i \in 1..Len(ArchOrder)}

EFI_DIR == <<"esp">>

OVMF_DIR == <<"ovmf">>

(***************************************************************************)
(* The file system                                                         *)
(***************************************************************************)
IsPrefix(d, p) == Len(d) <= Len(p) /\ SubSeq(p, 1, Len(d)) = d

\* os.path.basename
Basename(p) == p[Len(p)]

Parent(p) == SubSeq(p, 1, Len(p) - 1)

\* A disk: the files (path -> content) and the staging directories.
Disk(f, d) == [fs |-> f, dirs |-> d]

\* shutil.rmtree(d), guarded by os.path.exists(d)
RmTree(disk, d) ==
    IF d \in disk.dirs
    THEN Disk([p \in {q \in DOMAIN disk.fs : ~IsPrefix(d, q)} |-> disk.fs[p]],
              {q \in disk.dirs : ~IsPrefix(d, q)})
    ELSE disk

\* os.makedirs(d, exist_ok=True)
MakeDirs(disk, d) ==
    Disk(disk.fs, disk.dirs \cup {SubSeq(d, 1, n) : n \in 1..Len(d)})

setup_directories_keep(disk) ==
    MakeDirs(MakeDirs(disk, EFI_DIR \o <<"efi", "boot">>), OVMF_DIR)

setup_directories(disk) ==
    MakeDirs(MakeDirs(RmTree(RmTree(disk, EFI_DIR), OVMF_DIR),
                      EFI_DIR \o <<"efi", "boot">>),
             OVMF_DIR)

\* shutil.copy(src, dst): into dst when dst is a directory, onto dst otherwise.
\* The disk is unchanged when the copy fails.
CopyTarget(disk, src, dst) == IF dst \in disk.dirs THEN dst \o <<Basename(src)>> ELSE dst

CopyOk(disk, src, dst) ==
    /\ src \in DOMAIN disk.fs
    /\ Parent(CopyTarget(disk, src, dst)) \in disk.dirs

Copy(disk, src, dst) ==
    IF CopyOk(disk, src, dst)
    THEN Disk((CopyTarget(disk, src, dst) :> disk.fs[src]) @@ disk.fs, disk.dirs)
    ELSE disk

BuildType(release) == IF release THEN "release" ELSE "debug"

\* f"{PWD}/target/{arch}-unknown-{os}/{build_type}/{name}"
BuildArtifact(arch, os, release, name) ==
    <<"target", arch, "unknown", os, BuildType(release), name>>

BootLoader(arch, release) == BuildArtifact(arch, "uefi", release, "boot_loader.efi")

KernelStart(arch, release) == BuildArtifact(arch, "linux-gnu", release, "kernel_start")

\* The three copies of copy_files, in order: <<source, destination>>.
CopyPlan(arch, release) ==
    LET config == ARCH_CONFIG[arch] IN
    << <<config.ovmf_code, OVMF_DIR>>,
       <<config.ovmf_vars, OVMF_DIR>>,
       <<BootLoader(arch, release), EFI_DIR \o <<"efi", "boot", config.boot_efi>>>> >>

\* copy_files: the copies run in order and the first failure raises; what was
\* copied before it stays.  [disk, failed] where failed is 0 or the index of the
\* copy that raised.
RECURSIVE CopyFrom(_, _, _)
CopyFrom(disk, plan, i) ==
    IF i > Len(plan) THEN [disk |-> disk, failed |-> 0]
    ELSE IF ~CopyOk(disk, plan[i][1], plan[i][2]) THEN [disk |-> disk, failed |-> i]
    ELSE CopyFrom(Copy(disk, plan[i][1], plan[i][2]), plan, i + 1)

copy_files_ignore_errors(disk, arch, release) ==
    [disk |-> CopyFrom(disk, CopyPlan(arch, release), 1).disk, failed |-> 0]

copy_files(disk, arch, release) == CopyFrom(disk, CopyPlan(arch, release), 1)

BootIniPath(arch) == EFI_DIR \o <<ARCH_CONFIG[arch].boot_ini>>

\* The lines write_boot_ini writes; the provenance is the collaborator's.
BootIniContent(arch) ==
    <<"revision", "log_device", ARCH_CONFIG[arch].log_device,
      "log_level", "trace", "wait_for_start", "false", "walk_page_tables", "false">>

(***************************************************************************)
(* Commands and log records                                                *)
(***************************************************************************)
NoExc == [kind |-> "none", detail |-> <<>>]

Info(rec) == <<"INFO">> \o rec

Error(rec) == <<"ERROR">> \o rec

\* f"cargo build {release_flag}".split() + ["--target", f"{arch}-unknown-{os}", "-p", pkg, ...]
CargoCommand(arch, os, release, pkg, rest) ==
    <<"cargo", "build">> \o (IF release THEN <<"--release">> ELSE <<>>)
        \o <<"--target", arch, "unknown", os, "-p", pkg>> \o rest

CargoBootLoaderCommand(arch, release) ==
    CargoCommand(arch, "uefi", release, "boot_loader",
                 <<"--features", "boot_loader/all_uefi_table_guids">>)

CargoKernelStartCommand(arch, release) ==
    CargoCommand(arch, "linux-gnu", release, "kernel_start", <<>>)

QemuBinary(arch) == IF arch = "x86_64" THEN "qemu-system-x86_64" ELSE "qemu-system-aarch64"

\* cpu = "host" if accel else config['cpu']
CpuModel(arch, accel) == IF accel THEN "host" ELSE ARCH_CONFIG[arch].cpu

\* semihosting = "" if accel else config['semihosting']
Semihosting(arch, accel) == IF accel THEN <<>> ELSE ARCH_CONFIG[arch].semihosting

\* The f-string of run_qemu after .split(): an empty accel_option or semihosting
\* leaves no token.  A path inside a token is written as its components.
QemuCommandOf(arch, accel, accel_option) ==
    LET config == ARCH_CONFIG[arch] IN
    <<QemuBinary(arch), "-nodefaults", "-s", "-machine", config.machine>>
        \o accel_option
        \o <<"-cpu", CpuModel(arch, accel), "-m", MEMORY, "-smp", ToString(NUM_PROC)>>
        \o Semihosting(arch, accel)
        \o <<"-chardev", "stdio,id=char0,mux=on,logfile=serial1.log,signal=off",
             "-chardev", "file,id=fwdebug,path=fw.log",
             "-serial", "chardev:char0", "-mon", "chardev=char0",
             "-chardev", "file,path=serial2.log,id=char1", "-serial", "chardev:char1">>
        \o <<"-drive", "format=raw,file=fat:rw:">> \o EFI_DIR
        \o <<"-drive", "if=pflash,format=raw,file=">> \o OVMF_DIR
        \o <<Basename(config.ovmf_code), ",readonly=on">>
        \o <<"-drive", "if=pflash,format=raw,file=">> \o OVMF_DIR
        \o <<Basename(config.ovmf_vars), "-nographic">>

(***************************************************************************)
(* The inputs                                                              *)
(***************************************************************************)
\* The command lines: -a absent is "", and "riscv64" is an -a outside choices.
MainArgs ==
    {[build_all |-> TRUE, arch |-> "", release |-> r, accel |-> FALSE, build_only |-> FALSE] :
        r \in BOOLEAN}
    \cup {[build_all |-> FALSE, arch |-> a, release |-> r, accel |-> x, build_only |-> b] :
        a \in Archs, r \in BOOLEAN, x \in BOOLEAN, b \in BOOLEAN}
    \cup {[build_all |-> FALSE, arch |-> a, release |-> FALSE, accel |-> FALSE,
           build_only |-> FALSE] : a \in {"", "riscv64"}}

RunQemuArgs ==
    {[build_all |-> FALSE, arch |-> a, release |-> r, accel |-> x, build_only |-> FALSE] :
        a \in Archs, r \in BOOLEAN, x \in BOOLEAN}

NoArgs == [build_all |-> FALSE, arch |-> "", release |-> FALSE, accel |-> FALSE,
           build_only |-> FALSE]

FirmwareSources == UNION {{ARCH_CONFIG[a].ovmf_code, ARCH_CONFIG[a].ovmf_vars} : a \in Archs}

\* The firmware checkout is complete or lacks one image.
FirmwareFound == {FirmwareSources} \cup {FirmwareSources \ {p} : p \in FirmwareSources}

Hosts == {[machine |-> m, system |-> s] :
            m \in {S_x86_64, S_arm64}, s \in {S_Linux, S_Darwin, S_Windows}}

AliasBases == {S_x86_64, S_aarch64, S_arm64, S_amd64, S_x64}

ArchNames == UNION {CaseVariants(b) : b \in AliasBases \cup {S_i386, S_ppc}}

SystemNames == {S_Linux, S_Darwin, S_Windows, S_FreeBSD}

NoFnIn == [target |-> <<>>, host |-> <<>>, system |-> <<>>, accel |-> FALSE]

NoFnOut == [once |-> <<>>, twice |-> <<>>, accel |-> NoExc]

(***************************************************************************)
(* The program                                                             *)
(***************************************************************************)
InitProg(found, h) ==
    /\ pc = "idle"
    /\ entry = "none"
    /\ args = NoArgs
    /\ archIdx = 0
    /\ fs = [p \in found |-> <<"firmware">> \o p]
    /\ dirs = {}
    /\ host = h
    /\ log = <<>>
    /\ spawned = <<>>
    /\ accelOption = <<>>
    /\ qemuCommand = <<>>
    /\ exc = NoExc
    /\ exitCode = "none"
    /\ runs = 0
    /\ preStaging = {}

Init ==
    /\ \E found \in FirmwareFound, h \in Hosts : InitProg(found, h)
    /\ fnPc = "off"
    /\ fnIn = NoFnIn
    /\ fnOut = NoFnOut

\* The architecture build_project is building.
CurArch == IF args.build_all THEN ArchOrder[archIdx] ELSE args.arch

Begin(e, a) ==
    /\ entry' = e
    /\ args' = a
    /\ archIdx' = 0
    /\ log' = <<>>
    /\ spawned' = <<>>
    /\ accelOption' = <<>>
    /\ qemuCommand' = <<>>
    /\ exc' = NoExc
    /\ runs' = runs + 1
    /\ preStaging' = {}
    /\ UNCHANGED <<fs, dirs, host, fnVars>>

\* The status a process that leaves main normally exits with.
MainReturnStatus == 0

\* main returns: the interpreter exits.
MainReturns == pc' = "idle" /\ exitCode' = MainReturnStatus

\* An exception leaves the function that runs: main's try catches it, the
\* caller of a function called on its own receives it.
Propagate(e) ==
    /\ exc' = e
    /\ pc' = IF entry = "main" THEN "main_except" ELSE "idle"
    /\ UNCHANGED exitCode

\* run.py is started: parse_args exits with status 2 on an -a outside choices.
Main ==
    /\ pc = "idle"
    /\ runs < MaxRuns
    /\ \E a \in MainArgs :
        /\ Begin("main", a)
        /\ IF a.arch \in Archs \cup {""}
           THEN pc' = "main" /\ exitCode' = "none"
           ELSE pc' = "idle" /\ exitCode' = 2

\* run_qemu is called on its own.
CallRunQemu ==
    /\ pc = "idle"
    /\ runs < MaxRuns
    /\ \E a \in RunQemuArgs : Begin("run_qemu", a)
    /\ pc' = "run_qemu"
    /\ exitCode' = "none"

\* main, the body of its try
MainDispatch ==
    /\ pc = "main"
    /\ IF args.build_all
       THEN /\ pc' = "build_all"
            /\ archIdx' = 1
            /\ log' = Append(log, Info(<<"Building for all architectures", BuildType(args.release)>>))
            /\ UNCHANGED exitCode
       ELSE IF args.arch # ""
       THEN /\ pc' = "build_project"
            /\ UNCHANGED <<archIdx, log, exitCode>>
       ELSE /\ log' = Append(log, Error(<<"Please specify an architecture or use --all">>))
            /\ MainReturns
            /\ UNCHANGED archIdx
    /\ UNCHANGED <<entry, args, fs, dirs, host, spawned, accelOption, qemuCommand, exc,
                   runs, preStaging, fnVars>>

\* build_all_arches: for arch in ARCH_CONFIG
BuildAllLoop ==
    /\ pc = "build_all"
    /\ IF archIdx <= Len(ArchOrder)
       THEN pc' = "build_project" /\ UNCHANGED exitCode
       ELSE MainReturns
    /\ UNCHANGED <<entry, args, archIdx, fs, dirs, host, log, spawned, accelOption,
                   qemuCommand, exc, runs, preStaging, fnVars>>

BuildProjectStart ==
    /\ pc = "build_project"
    /\ log' = Append(log, Info(<<"Building project", CurArch, BuildType(args.release)>>))
    /\ pc' = "cargo_boot_loader"
    /\ UNCHANGED <<entry, args, archIdx, fs, dirs, host, spawned, accelOption, qemuCommand,
                   exc, exitCode, runs, preStaging, fnVars>>

\* Where build_project goes when a cargo run ends with `status`: check=True
\* raises CalledProcessError on a status other than 0.
AfterCargoKeepGoing(status, next) == next

AfterCargo(status, next) == IF status = 0 THEN next ELSE "build_except"

\* subprocess.run(cargo ..., check=True); a build that succeeds leaves its artifact.
Cargo(at, cmd, artifact, next) ==
    /\ pc = at
    /\ spawned' = Append(spawned, cmd)
    /\ \E status \in {0, 101} :
        /\ pc' = AfterCargo(status, next)
        /\ fs' = IF status = 0 THEN (artifact :> (<<"cargo">> \o artifact)) @@ fs ELSE fs
        /\ exc' = IF pc' = "build_except" THEN Raised("CalledProcessError", cmd) ELSE exc
    /\ UNCHANGED <<entry, args, archIdx, dirs, host, log, accelOption, qemuCommand,
                   exitCode, runs, preStaging, fnVars>>

CargoBootLoader ==
    Cargo("cargo_boot_loader", CargoBootLoaderCommand(CurArch, args.release),
          BootLoader(CurArch, args.release), "cargo_kernel_start")

CargoKernelStart ==
    Cargo("cargo_kernel_start", CargoKernelStartCommand(CurArch, args.release),
          KernelStart(CurArch, args.release), "build_done")

\* build_project: except subprocess.CalledProcessError: logger.error; raise
BuildExcept ==
    /\ pc = "build_except"
    /\ log' = Append(log, Error(<<"Build failed", CurArch>>))
    /\ pc' = "main_except"
    /\ UNCHANGED <<entry, args, archIdx, fs, dirs, host, spawned, accelOption, qemuCommand,
                   exc, exitCode, runs, preStaging, fnVars>>

\* build_project returns to its caller.
BuildProjectReturns ==
    /\ pc = "build_done"
    /\ IF args.build_all
       THEN pc' = "build_all" /\ archIdx' = archIdx + 1 /\ UNCHANGED exitCode
       ELSE IF ~args.build_only
       THEN pc' = "run_qemu" /\ UNCHANGED <<archIdx, exitCode>>
       ELSE MainReturns /\ UNCHANGED archIdx
    /\ UNCHANGED <<entry, args, fs, dirs, host, log, spawned, accelOption, qemuCommand,
                   exc, runs, preStaging, fnVars>>

\* main: except Exception as e: logger.error
MainExcept ==
    /\ pc = "main_except"
    /\ log' = Append(log, Error(<<"Error", exc.kind>>))
    /\ MainReturns
    /\ UNCHANGED <<entry, args, archIdx, fs, dirs, host, spawned, accelOption, qemuCommand,
                   exc, runs, preStaging, fnVars>>

(***************************************************************************)
(* run_qemu                                                                *)
(***************************************************************************)
\* The calls of run_qemu in the order of its statements.
RunQemuStagesAccelFirst ==
    <<"get_accelerator", "setup_directories", "copy_files", "write_boot_ini",
      "compose", "execute">>

RunQemuStagesIniFirst ==
    <<"setup_directories", "write_boot_ini", "copy_files", "get_accelerator",
      "compose", "execute">>

RunQemuStages ==
    <<"setup_directories", "copy_files", "write_boot_ini", "get_accelerator",
      "compose", "execute">>

StageIndex(stage) == CHOOSE i \in 1..Len(RunQemuStages) : RunQemuStages[i] = stage

AfterStage(stage) ==
    IF StageIndex(stage) = Len(RunQemuStages) THEN "run_qemu_done"
    ELSE RunQemuStages[StageIndex(stage) + 1]

Staged(f) == {<<p, f[p]>> : p \in {q \in DOMAIN f : IsPrefix(EFI_DIR, q) \/ IsPrefix(OVMF_DIR, q)}}

RunQemuStart ==
    /\ pc = "run_qemu"
    /\ log' = Append(log, Info(<<"Running QEMU", args.arch, BuildType(args.release)>>))
    /\ pc' = RunQemuStages[1]
    /\ UNCHANGED <<entry, args, archIdx, fs, dirs, host, spawned, accelOption, qemuCommand,
                   exc, exitCode, runs, preStaging, fnVars>>

SetupDirectories ==
    /\ pc = "setup_directories"
    /\ log' = Append(log, Info(<<"Setting up directories">>))
    /\ preStaging' = Staged(fs)
    /\ LET disk == setup_directories(Disk(fs, dirs)) IN
        fs' = disk.fs /\ dirs' = disk.dirs
    /\ pc' = AfterStage("setup_directories")
    /\ UNCHANGED <<entry, args, archIdx, host, spawned, accelOption, qemuCommand, exc,
                   exitCode, runs, fnVars>>

CopyFiles ==
    /\ pc = "copy_files"
    /\ log' = Append(log, Info(<<"Copying files", args.arch, BuildType(args.release)>>))
    /\ LET r == copy_files(Disk(fs, dirs), args.arch, args.release) IN
        /\ fs' = r.disk.fs
        /\ dirs' = r.disk.dirs
        /\ IF r.failed = 0
           THEN pc' = AfterStage("copy_files") /\ UNCHANGED <<exc, exitCode>>
           ELSE Propagate(Raised("FileNotFoundError",
                                 CopyPlan(args.arch, args.release)[r.failed][1]))
    /\ UNCHANGED <<entry, args, archIdx, host, spawned, accelOption, qemuCommand, runs,
                   preStaging, fnVars>>

\* get_git_info runs before the file is opened: when git fails nothing is written.
WriteBootIni ==
    /\ pc = "write_boot_ini"
    /\ log' = Append(log, Info(<<"Writing boot.ini", args.arch>>))
    /\ \E git_ok \in BOOLEAN :
        IF git_ok /\ EFI_DIR \in dirs
        THEN /\ fs' = (BootIniPath(args.arch) :> BootIniContent(args.arch)) @@ fs
             /\ pc' = AfterStage("write_boot_ini")
             /\ UNCHANGED <<exc, exitCode>>
        ELSE /\ Propagate(IF git_ok THEN Raised("FileNotFoundError", BootIniPath(args.arch))
                          ELSE Raised("CalledProcessError", <<"git">>))
             /\ UNCHANGED fs
    /\ UNCHANGED <<entry, args, archIdx, dirs, host, spawned, accelOption, qemuCommand, runs,
                   preStaging, fnVars>>

GetAccelerator ==
    /\ pc = "get_accelerator"
    /\ log' = Append(log, Info(<<"Getting accelerator", args.arch>>))
    /\ LET r == get_accelerator(ArchChars(args.arch), args.accel, host.machine, host.system) IN
        IF r.kind = "return"
        THEN /\ accelOption' = r.detail
             /\ pc' = AfterStage("get_accelerator")
             /\ UNCHANGED <<exc, exitCode>>
        ELSE /\ Propagate(r)
             /\ UNCHANGED accelOption
    /\ UNCHANGED <<entry, args, archIdx, fs, dirs, host, spawned, qemuCommand, runs,
                   preStaging, fnVars>>

Compose ==
    /\ pc = "compose"
    /\ qemuCommand' = QemuCommandOf(args.arch, args.accel, accelOption)
    /\ log' = Append(log, Info(<<"Running">> \o qemuCommand'))
    /\ pc' = AfterStage("compose")
    /\ UNCHANGED <<entry, args, archIdx, fs, dirs, host, spawned, accelOption, exc, exitCode,
                   runs, preStaging, fnVars>>

\* subprocess.run(qemu_command, shell=False, check=True)
Execute ==
    /\ pc = "execute"
    /\ spawned' = Append(spawned, qemuCommand)
    /\ \E status \in {0, 1} :
        IF status = 0
        THEN pc' = AfterStage("execute") /\ UNCHANGED <<exc, exitCode>>
        ELSE Propagate(Raised("CalledProcessError", qemuCommand))
    /\ UNCHANGED <<entry, args, archIdx, fs, dirs, host, log, accelOption, qemuCommand, runs,
                   preStaging, fnVars>>

\* run_qemu returns to its caller.
RunQemuReturns ==
    /\ pc = "run_qemu_done"
    /\ IF entry = "main" THEN MainReturns ELSE pc' = "idle" /\ UNCHANGED exitCode
    /\ UNCHANGED <<entry, args, archIdx, fs, dirs, host, log, spawned, accelOption,
                   qemuCommand, exc, runs, preStaging, fnVars>>

Next ==
    \/ Main
    \/ CallRunQemu
    \/ MainDispatch
    \/ BuildAllLoop
    \/ BuildProjectStart
    \/ CargoBootLoader
    \/ CargoKernelStart
    \/ BuildExcept
    \/ BuildProjectReturns
    \/ MainExcept
    \/ RunQemuStart
    \/ SetupDirectories
    \/ CopyFiles
    \/ WriteBootIni
    \/ GetAccelerator
    \/ Compose
    \/ Execute
    \/ RunQemuReturns

Spec == Init /\ [][Next]_vars

(***************************************************************************)
(* The functions on their own: get_arch_name_normalized applied once and   *)
(* to its own result, then get_accelerator, on names in any case.          *)
(***************************************************************************)
InitFn ==
    /\ InitProg(FirmwareSources, [machine |-> S_x86_64, system |-> S_Linux])
    /\ fnPc = "start"
    /\ fnIn \in [target : ArchNames, host : ArchNames, system : SystemNames, accel : BOOLEAN]
    /\ fnOut = NoFnOut

FnNormalize ==
    /\ fnPc = "start"
    /\ fnOut' = [fnOut EXCEPT !.once = get_arch_name_normalized(fnIn.target),
                              !.twice = get_arch_name_normalized(
                                            get_arch_name_normalized(fnIn.target))]
    /\ fnPc' = "normalized"
    /\ UNCHANGED <<fnIn, progVars>>

FnGetAccelerator ==
    /\ fnPc = "normalized"
    /\ fnOut' = [fnOut EXCEPT !.accel =
                    get_accelerator(fnIn.target, fnIn.accel, fnIn.host, fnIn.system)]
    /\ fnPc' = "resolved"
    /\ UNCHANGED <<fnIn, progVars>>

NextFn == FnNormalize \/ FnGetAccelerator

SpecFn == InitFn /\ [][NextFn]_vars

(***************************************************************************)
(* Properties                                                              *)
(***************************************************************************)
InLog(msg) == \E i \in 1..Len(log) : log[i][2] = msg

\* Position of the first record with this message, 0 when there is none.
LogPos(msg) ==
    IF InLog(msg)
    THEN CHOOSE i \in 1..Len(log) : log[i][2] = msg /\ \A j \in 1..(i - 1) : log[j][2] # msg
    ELSE 0

\* What each stage of run_qemu logs as it starts, in the order of the stages.
StageMarkers ==
    <<"Setting up directories", "Copying files", "Writing boot.ini", "Getting accelerator",
      "Running">>

IsQemu(cmd) == cmd # <<>> /\ cmd[1] \in {QemuBinary(a) : a \in Archs}

QemuRan == \E i \in 1..Len(spawned) : IsQemu(spawned[i])

Finished == pc = "idle" /\ runs > 0

\* The staging directories exist.
StagingReset == {EFI_DIR \o <<"efi", "boot">>, OVMF_DIR} \subseteq dirs

\* Where copy_files puts its three files.
StagedTargets(arch) ==
    {OVMF_DIR \o <<Basename(ARCH_CONFIG[arch].ovmf_code)>>,
     OVMF_DIR \o <<Basename(ARCH_CONFIG[arch].ovmf_vars)>>,
     EFI_DIR \o <<"efi", "boot", ARCH_CONFIG[arch].boot_efi>>}

StagingSources(arch, release) ==
    {ARCH_CONFIG[arch].ovmf_code, ARCH_CONFIG[arch].ovmf_vars, BootLoader(arch, release)}

\* The three files are staged and are copies of their sources.
StagingPopulated(arch, release) ==
    /\ StagingSources(arch, release) \subseteq DOMAIN fs
    /\ StagedTargets(arch) \subseteq DOMAIN fs
    /\ fs[OVMF_DIR \o <<Basename(ARCH_CONFIG[arch].ovmf_code)>>] = fs[ARCH_CONFIG[arch].ovmf_code]
    /\ fs[OVMF_DIR \o <<Basename(ARCH_CONFIG[arch].ovmf_vars)>>] = fs[ARCH_CONFIG[arch].ovmf_vars]
    /\ fs[EFI_DIR \o <<"efi", "boot", ARCH_CONFIG[arch].boot_efi>>] = fs[BootLoader(arch, release)]

BootIniPaths == {BootIniPath(a) : a \in Archs}

StagedPaths == {q \in DOMAIN fs : IsPrefix(EFI_DIR, q) \/ IsPrefix(OVMF_DIR, q)}

AccelMismatch == Raised("Exception", <<AccelMismatchMsg>>)

HostDiffers ==
    get_arch_name_normalized(Lower(host.machine))
        # get_arch_name_normalized(ArchChars(args.arch))

\* The token that follows `flag` in the command is `value`.
HasOption(cmd, flag, value) ==
    \E i \in 1..(Len(cmd) - 1) : cmd[i] = flag /\ cmd[i + 1] = value

HasTokens(cmd, tokens) ==
    \E i \in 0..Len(cmd) :
        i + Len(tokens) <= Len(cmd) /\ SubSeq(cmd, i + 1, i + Len(tokens)) = tokens

\* C1: a finished run of main that saw a failure (an exception raised by a
\* stage, or no architecture given) has a nonzero exit status; status 0 means
\* every requested stage succeeded.
C1_ExitCodeMirrorsFailure ==
    (Finished /\ entry = "main" /\ exitCode = 0)
        => (exc = NoExc /\ (args.build_all \/ args.arch \in Archs))

\* C2 as stated: when run_qemu fails with the incompatible-acceleration error,
\* no staging has occurred: the staging directories were not reset or populated
\* and no boot descriptor was written by this call.
C2_AccelFailsBeforeStaging ==
    exc = AccelMismatch
        => /\ ~InLog("Setting up directories")
           /\ ~InLog("Copying files")
           /\ ~InLog("Writing boot.ini")

\* C2 as amended: with acceleration requested and the normalized host
\* architecture different from the normalized target, a run_qemu whose staging
\* and descriptor emission succeeded fails with the incompatible-acceleration
\* error; at that moment the staging area has been reset and populated and the
\* boot descriptor written, and the emulator is never composed or executed.
C2_AccelFailsAfterStaging ==
    /\ (InLog("Getting accelerator") /\ pc # "get_accelerator" /\ args.accel /\ HostDiffers)
           => exc = AccelMismatch
    /\ exc = AccelMismatch
           => /\ args.accel /\ HostDiffers
              /\ LogPos("Setting up directories") > 0
              /\ LogPos("Setting up directories") < LogPos("Copying files")
              /\ LogPos("Copying files") < LogPos("Writing boot.ini")
              /\ LogPos("Writing boot.ini") < LogPos("Getting accelerator")
              /\ StagingReset
              /\ StagingPopulated(args.arch, args.release)
              /\ BootIniPath(args.arch) \in DOMAIN fs
              /\ ~InLog("Running")
              /\ qemuCommand = <<>>
              /\ ~QemuRan
              /\ pc \in {"main_except", "idle"}

C2_Witness ==
    /\ exc = AccelMismatch
    /\ Finished
    /\ args.arch = "aarch64"
    /\ host.machine = S_x86_64

\* C3: the stages of run_qemu start in the fixed order reset, populate, emit
\* descriptor, resolve accelerator, compose, execute; a stage starts only when
\* the one before it has completed successfully, and the emulator is executed
\* only when every earlier stage succeeded.
C3_StageOrder ==
    /\ \A k \in 1..(Len(StageMarkers) - 1) :
          InLog(StageMarkers[k + 1])
              => (LogPos(StageMarkers[k]) > 0
                  /\ LogPos(StageMarkers[k]) < LogPos(StageMarkers[k + 1]))
    /\ InLog("Copying files") => StagingReset
    /\ InLog("Writing boot.ini") => StagingPopulated(args.arch, args.release)
    /\ InLog("Getting accelerator") => BootIniPath(args.arch) \in DOMAIN fs
    /\ InLog("Running")
          => /\ ~(args.accel /\ HostDiffers)
             /\ accelOption = get_accelerator(ArchChars(args.arch), args.accel,
                                              host.machine, host.system).detail
             /\ qemuCommand # <<>>
    /\ QemuRan
          => /\ InLog("Running")
             /\ spawned[Len(spawned)] = qemuCommand
             /\ (exc = NoExc \/ exc = Raised("CalledProcessError", qemuCommand))
    /\ (exc # NoExc /\ InLog("Running QEMU"))
          => pc \in {"main_except", "idle"}

C3_Witness ==
    /\ QemuRan
    /\ pc = "run_qemu_done"
    /\ exc = NoExc

\* C7: when setup_directories and copy_files have run, the staging area holds
\* exactly the boot binary of this run's architecture and build profile and the
\* two firmware images of this run's architecture: one file under the EFI
\* directory, two under the firmware directory, and nothing an earlier run
\* staged, its boot descriptor included.
C7_NoStaleArtifacts ==
    (log # <<>> /\ log[Len(log)][2] = "Copying files" /\ exc = NoExc)
        => /\ StagedPaths = StagedTargets(args.arch)
           /\ StagingPopulated(args.arch, args.release)
           /\ Cardinality({q \in DOMAIN fs : IsPrefix(EFI_DIR, q)}) = 1
           /\ Cardinality({q \in DOMAIN fs : IsPrefix(OVMF_DIR, q)}) = 2
           /\ BootIniPaths \cap DOMAIN fs = {}

\* The second of two runs has populated the staging area that the first run,
\* for the other architecture and build profile, had filled.
C7_Witness ==
    /\ log # <<>> /\ log[Len(log)][2] = "Copying files" /\ exc = NoExc
    /\ args.arch = "aarch64" /\ args.release
    /\ <<BootIniPath("x86_64"), BootIniContent("x86_64")>> \in preStaging
    /\ \E e \in preStaging : e[1] = EFI_DIR \o <<"efi", "boot", ARCH_CONFIG["x86_64"].boot_efi>>
                              /\ e[2] = <<"cargo">> \o BootLoader("x86_64", FALSE)
    /\ \E e \in preStaging : e[1] = OVMF_DIR \o <<Basename(ARCH_CONFIG["x86_64"].ovmf_code)>>

\* C8: when a source of copy_files is missing, copy_files raises
\* FileNotFoundError, write_boot_ini is not reached, the staging area holds no
\* boot descriptor and the emulator is not executed.
C8_MissingSourceStopsLaunch ==
    (InLog("Copying files") /\ ~(StagingSources(args.arch, args.release) \subseteq DOMAIN fs))
        => /\ exc.kind = "FileNotFoundError"
           /\ exc.detail \in StagingSources(args.arch, args.release)
           /\ exc.detail \notin DOMAIN fs
           /\ ~InLog("Writing boot.ini")
           /\ BootIniPaths \cap DOMAIN fs = {}
           /\ ~QemuRan
           /\ pc \in {"main_except", "idle"}

C8_Witness ==
    /\ Finished
    /\ entry = "main"
    /\ exc.kind = "FileNotFoundError"
    /\ exc.detail = ARCH_CONFIG[args.arch].ovmf_vars
    /\ preStaging # {}

\* C9: in a composed command, when the resolver returned an acceleration flag
\* the flag is in the command, the CPU model is host and no semihosting device
\* is given; when it returned the empty flag the CPU model is the
\* architecture's and the architecture's semihosting device is given.
C9_CpuAndSemihostingFollowAccel ==
    qemuCommand # <<>>
        => IF accelOption # <<>>
           THEN /\ HasTokens(qemuCommand, accelOption)
                /\ HasOption(qemuCommand, "-cpu", "host")
                /\ ~HasTokens(qemuCommand, ARCH_CONFIG[args.arch].semihosting)
           ELSE /\ HasOption(qemuCommand, "-cpu", ARCH_CONFIG[args.arch].cpu)
                /\ HasTokens(qemuCommand, ARCH_CONFIG[args.arch].semihosting)

\* The cargo runs of build_all_arches in registry order, with what each leaves.
BuildAllPlan(release) ==
    [i \in 1..(2 * Len(ArchOrder)) |->
        LET arch == ArchOrder[(i + 1) \div 2] IN
        IF i % 2 = 1
        THEN [arch |-> arch, cmd |-> CargoBootLoaderCommand(arch, release),
              artifact |-> BootLoader(arch, release)]
        ELSE [arch |-> arch, cmd |-> CargoKernelStartCommand(arch, release),
              artifact |-> KernelStart(arch, release)]]

\* C10: build_all_arches runs the builds in registry order; a toolchain run is
\* made only when every earlier one succeeded and left its artifact, so after
\* the first failure none is made for a later architecture, and the exception
\* that reaches the caller is that of the failing architecture's command.
C10_BuildAllStopsAtFirstFailure ==
    args.build_all
        => LET plan == BuildAllPlan(args.release) IN
           /\ Len(spawned) <= Len(plan)
           /\ \A i \in 1..Len(spawned) :
                 /\ spawned[i] = plan[i].cmd
                 /\ \/ plan[i].artifact \in DOMAIN fs
                    \/ /\ i = Len(spawned)
                       /\ exc = Raised("CalledProcessError", plan[i].cmd)
                       /\ plan[i].arch = ArchOrder[archIdx]
           /\ exc # NoExc
                 => /\ spawned # <<>>
                    /\ exc = Raised("CalledProcessError", spawned[Len(spawned)])
                    /\ pc \in {"build_except", "main_except", "idle"}
                    /\ \A k \in 1..(archIdx - 1) :
                          {BootLoader(ArchOrder[k], args.release),
                           KernelStart(ArchOrder[k], args.release)} \subseteq DOMAIN fs

\* The second architecture's build failed after the first one's completed.
C10_Witness ==
    /\ args.build_all
    /\ Finished
    /\ archIdx = 2
    /\ exc.kind = "CalledProcessError"
    /\ Len(spawned) = 3
    /\ runs = 1

\* The names the normalizer is to recognize, in any case.
IsAlias(name) == Lower(name) \in AliasBases

\* The canonical id of a name read without regard to case.
Canonical(name) ==
    IF Lower(name) = S_arm64 THEN S_aarch64
    ELSE IF Lower(name) \in {S_amd64, S_x64} THEN S_x86_64
    ELSE Lower(name)

\* C4: get_arch_name_normalized maps every alias, in any case, to x86_64 or
\* aarch64, and returns every other name lower-cased.
C4_NormalizeCanonical ==
    fnPc \in {"normalized", "resolved"}
        => IF IsAlias(fnIn.target)
           THEN fnOut.once \in {S_x86_64, S_aarch64}
           ELSE fnOut.once = Lower(fnIn.target)

\* C5: on every alias, normalizing the normalized name changes nothing.
C5_NormalizeIdempotent ==
    (fnPc \in {"normalized", "resolved"} /\ IsAlias(fnIn.target))
        => fnOut.twice = fnOut.once

====
